---- MODULE Spec2Model ----
(***************************************************************************)
(* The object-graph mapping layer of addon/models/semantic-model.js: typed *)
(* entity properties backed by an RDF triple store, with a per-property    *)
(* cache slot, change listeners, and commits that go through a remote      *)
(* update when the model has autosave enabled.                             *)
(***************************************************************************)
EXTENDS Integers, Sequences, FiniteSets, TLC

(***************************************************************************)
(* Bounds of the model.                                                    *)
(***************************************************************************)
\* remote updates that may be in flight at the same time
MaxPending == 2
\* change listeners that can be registered on an entity
MaxListeners == 1
\* property writes and destroys per behaviour
MaxWrites == 2

(***************************************************************************)
(* JavaScript values.  Field k is the tag of the value.                    *)
(***************************************************************************)
Undefined == [k |-> "undefined"]
Null == [k |-> "null"]
NaN == [k |-> "nan"]
InvalidDate == [k |-> "invalid-date"]
Str(s) == [k |-> "str", v |-> s]
Num(n) == [k |-> "num", v |-> n]
Bool(b) == [k |-> "bool", v |-> b]
DateV(s, m) == [k |-> "date", sec |-> s, ms |-> m]
Ent(i) == [k |-> "ent", v |-> i]
Arr(s) == [k |-> "arr", v |-> s]

\* RDF terms: a named node, and a literal with its value and datatype
NamedNode(u) == [k |-> "nn", value |-> u]
Literal(v, dt) == [k |-> "lit", value |-> v, dt |-> dt]
Statement(s, p, o, g) == [subject |-> s, predicate |-> p, object |-> o, graph |-> g]

\* the one element of a singleton set.  The({e(x) : x \in {d}}) is e with x
\* standing for the value of d, which is computed once
The(S) == CHOOSE x \in S : TRUE

\* JavaScript truthiness
Truthy(x) ==
    CASE x.k = "undefined" -> FALSE
      [] x.k = "null" -> FALSE
      [] x.k = "nan" -> FALSE
      [] x.k = "str" -> x.v # <<>>
      [] x.k = "num" -> x.v # 0
      [] x.k = "bool" -> x.v
      [] OTHER -> TRUE

(***************************************************************************)
(* Conversions between values and the lexical forms of literals.  A string *)
(* is the sequence of its characters.                                      *)
(***************************************************************************)
Digits == <<"0", "1", "2", "3", "4", "5", "6", "7", "8", "9">>

IsDigit(c) == \E d \in 1..10 : Digits[d] = c

DigitValue(c) == (CHOOSE d \in 1..10 : Digits[d] = c) - 1

RECURSIVE NatToString(_)
NatToString(n) ==
    IF n < 10 THEN <<Digits[n + 1]>>
    ELSE NatToString(n \div 10) \o <<Digits[(n % 10) + 1]>>

\* String(n) for an integer n
NumToString(n) == IF n < 0 THEN <<"-">> \o NatToString(0 - n) ELSE NatToString(n)

\* the longest prefix of s made of digits
RECURSIVE DigitPrefix(_)
DigitPrefix(s) ==
    IF s = <<>> \/ ~IsDigit(Head(s)) THEN <<>>
    ELSE <<Head(s)>> \o DigitPrefix(Tail(s))

RECURSIVE DigitsToNat(_, _)
DigitsToNat(s, acc) ==
    IF s = <<>> THEN acc ELSE DigitsToNat(Tail(s), acc * 10 + DigitValue(Head(s)))

RECURSIVE SkipSpaces(_)
SkipSpaces(s) == IF s # <<>> /\ Head(s) = " " THEN SkipSpaces(Tail(s)) ELSE s

\* parseInt(s): leading blanks, an optional sign, then the digits up to the
\* first character that is not one; NaN when there is no digit
ParseInt(s) ==
    The({The({IF d = <<>> THEN NaN
              ELSE Num(IF t # <<>> /\ Head(t) = "-" THEN 0 - DigitsToNat(d, 0)
                       ELSE DigitsToNat(d, 0)) :
                d \in {DigitPrefix(IF t # <<>> /\ Head(t) \in {"-", "+"} THEN Tail(t)
                                   ELSE t)}}) :
            t \in {SkipSpaces(s)}})

\* Date.prototype.toUTCString: the date to the second, the milliseconds are
\* not part of the text ("GMT" and the seconds since the epoch stand for the
\* calendar text)
ToUTCString(d) == <<"G", "M", "T">> \o NumToString(d.sec)

\* new Date(text): the date the text denotes, or an invalid date
ParseDate(s) ==
    IF Len(s) > 3 /\ SubSeq(s, 1, 3) = <<"G", "M", "T">>
    THEN The({IF n # NaN /\ NumToString(n.v) = SubSeq(s, 4, Len(s))
              THEN DateV(n.v, 0)
              ELSE InvalidDate : n \in {ParseInt(SubSeq(s, 4, Len(s)))}})
    ELSE InvalidDate

TrueText == <<"t", "r", "u", "e">>
FalseText == <<"f", "a", "l", "s", "e">>

(***************************************************************************)
(* The model classes the entities below are instances of: their declared   *)
(* properties with the options of each, and the class-level configuration. *)
(***************************************************************************)
Models == {"book", "author", "edition", "memo"}

\* the options of a property declaration; "" and FALSE stand for an option
\* that is not given
Options(type) ==
    [type |-> type, predicate |-> "", ns |-> "", model |-> "", inverse |-> FALSE,
     inverseProperty |-> "", graph |-> "", propagateDefaultGraph |-> FALSE]

\* self.attributes of each class, in declaration order
attributes ==
    [book |-> <<"title", "pages", "author">>,
     author |-> <<"books", "favorites">>,
     edition |-> <<"inStock", "homepage", "published">>,
     memo |-> <<"text">>]

\* self.attributeDefinitions of each class
attributeDefinitions ==
    [book |->
        [title |-> [Options("string") EXCEPT !.ns = "dct:"],
         pages |-> [Options("integer") EXCEPT !.predicate = "schema:numberOfPages",
                        !.ns = "dct:"],
         author |-> [Options("belongsTo") EXCEPT !.predicate = "schema:author",
                        !.model = "author", !.inverseProperty = "books"]],
     author |->
        [books |-> [Options("hasMany") EXCEPT !.predicate = "schema:author",
                        !.model = "book", !.inverse = TRUE, !.inverseProperty = "author"],
         favorites |-> [Options("hasMany") EXCEPT !.model = "book"]],
     edition |->
        [inStock |-> Options("boolean"),
         homepage |-> [Options("term") EXCEPT !.ns = "foaf:"],
         published |-> [Options("dateTime") EXCEPT !.predicate = "dct:issued"]],
     memo |->
        [text |-> Options("string")]]

\* the class-level configuration: rdfType, defaultGraph, namespace
\* (constructor.namespace) and the defaultNamespace field of its instances
classConfig ==
    [book |-> [rdfType |-> "schema:Book", defaultGraph |-> "", solid |-> TRUE,
               namespace |-> "", defaultNamespace |-> ""],
     author |-> [rdfType |-> "schema:Person", defaultGraph |-> "", solid |-> TRUE,
                 namespace |-> "ext:", defaultNamespace |-> ""],
     edition |-> [rdfType |-> "schema:BookEdition", defaultGraph |-> "g:editions",
                  solid |-> FALSE, namespace |-> "ed:", defaultNamespace |-> "schema:"],
     memo |-> [rdfType |-> "ext:Memo", defaultGraph |-> "g:memos", solid |-> FALSE,
               namespace |-> "", defaultNamespace |-> ""]]

RDFType == "rdf:type"

\* toNamespace(ns)(name): the named node of a name in a namespace
toNamespace(ns, name) == ns \o name

(***************************************************************************)
(* The entity objects of the model.  Each has the class it is an instance  *)
(* of and the uri it is constructed with; the objects the application      *)
(* constructs (several may carry one uri) and, for every uri, the object   *)
(* the store creates when a relation is materialized.                      *)
(***************************************************************************)
entityDef ==
    [B1 |-> [class |-> "book", uri |-> "urn:b1", byStore |-> FALSE],
     B2 |-> [class |-> "book", uri |-> "urn:b2", byStore |-> FALSE],
     B3 |-> [class |-> "book", uri |-> "urn:b3", byStore |-> FALSE],
     A1 |-> [class |-> "author", uri |-> "urn:a1", byStore |-> FALSE],
     A1x |-> [class |-> "author", uri |-> "urn:a1", byStore |-> FALSE],
     E1 |-> [class |-> "edition", uri |-> "urn:e1", byStore |-> FALSE],
     E1x |-> [class |-> "edition", uri |-> "urn:e1", byStore |-> FALSE],
     M1 |-> [class |-> "memo", uri |-> "urn:m1", byStore |-> FALSE],
     sB1 |-> [class |-> "book", uri |-> "urn:b1", byStore |-> TRUE],
     sB2 |-> [class |-> "book", uri |-> "urn:b2", byStore |-> TRUE],
     sB3 |-> [class |-> "book", uri |-> "urn:b3", byStore |-> TRUE],
     sA1 |-> [class |-> "author", uri |-> "urn:a1", byStore |-> TRUE]]

Entities == DOMAIN entityDef

AppEntities == {i \in Entities : ~entityDef[i].byStore}

Range(s) == {s[n] : n \in DOMAIN s}

classOf(i) == entityDef[i].class

uriOf(i) == NamedNode(entityDef[i].uri)

\* the cache slots: one per entity and declared property
Slots == UNION {{<<i, p>> : p \in Range(attributes[classOf(i)])} : i \in Entities}

definitionOf(i, p) == attributeDefinitions[classOf(i)][p]

\* the change listeners an application may register
Listeners == 1..MaxListeners

(***************************************************************************)
(* The store service, as the entity code uses it.                          *)
(***************************************************************************)
\* store.getGraphForType(modelName): the graph of a model, "" for none
getGraphForType(modelName) ==
    CASE modelName = "book" -> "g:books"
      [] modelName = "author" -> "g:authors"
      [] OTHER -> ""

\* store.discoverDefaultGraphByType(store.classForModel(type))
discoverDefaultGraphByType(class) ==
    CASE class = "book" -> "g:books"
      [] class = "author" -> "g:authors"
      [] OTHER -> "g:editions"

classForModel(type) == type

Matches(st, s, p, o, g) ==
    /\ s.k = "undefined" \/ st.subject = s
    /\ p.k = "undefined" \/ st.predicate = p
    /\ o.k = "undefined" \/ st.object = o
    /\ g.k = "undefined" \/ st.graph = g

\* the elements of a finite set, in the order the store lists them
RECURSIVE SeqOf(_)
SeqOf(S) ==
    IF S = {} THEN <<>>
    ELSE The({<<x>> \o SeqOf(S \ {x}) : x \in {CHOOSE y \in S : TRUE}})

\* store.match(s, p, o, g): the statements matching a pattern; Undefined is
\* the wildcard
match(store, s, p, o, g) == SeqOf({st \in store : Matches(st, s, p, o, g)})

\* store.any(s, p, o, g): the term in the first wildcard position of one
\* matching statement, Undefined when there is none
any(store, s, p, o, g) ==
    The({IF found = <<>> THEN Undefined
         ELSE IF s.k = "undefined" THEN found[1].subject
         ELSE IF p.k = "undefined" THEN found[1].predicate
         ELSE found[1].object : found \in {match(store, s, p, o, g)}})

\* store.addAll(ins)
addAll(store, ins) == store \cup Range(ins)

\* store.removeStatements(del)
removeStatements(store, del) == store \ Range(del)

\* store.create(model, uri, options): the entity object of that model and uri
create(model, term) ==
    Ent(CHOOSE i \in Entities :
            entityDef[i].byStore /\ classOf(i) = model /\ uriOf(i) = term)

(***************************************************************************)
(* The program state the functions below work on is a record W: the local  *)
(* store, the cache slots, the remote updates in flight, the constructed   *)
(* entities with their modelName, the registered listeners and the         *)
(* autosave flag of each model; and what the running operation has done so *)
(* far: whether it has thrown, the listener calls it made, the alerts and  *)
(* the bulk-clear error it logged, the commits it issued and the slots its *)
(* setters assigned.                                                       *)
(***************************************************************************)
Graph(g) == IF g = "" THEN Undefined ELSE NamedNode(g)

\* entity.modelName: set from options.modelName by the constructor
modelNameOf(W, i) == IF entityDef[i].byStore THEN classOf(i) ELSE W.ent[i].modelName

\* entity.defaultGraph as the constructor resolves it (lines 445-451) when
\* the options carry no defaultGraph
defaultGraphOf(i) ==
    The({IF c.defaultGraph # "" THEN c.defaultGraph
         ELSE IF c.solid THEN discoverDefaultGraphByType(classOf(i))
         ELSE "" : c \in {classConfig[classOf(i)]}})

graphForType(type) == discoverDefaultGraphByType(classForModel(type))

\* entityGraph || defaultGraph of graphForInstance
entityOrDefaultGraph(W, entity) ==
    The({IF entityGraph # "" THEN entityGraph ELSE defaultGraphOf(entity) :
            entityGraph \in {getGraphForType(modelNameOf(W, entity))}})

\* graphForInstance(entity, propertyName); propertyName "" is the call
\* without a property name
graphForInstance(W, entity, propertyName) ==
    IF propertyName # ""
    THEN The({IF options.model # "" /\ options.inverse
              THEN graphForType(options.model)
              ELSE IF options.graph # "" THEN options.graph
              ELSE entityOrDefaultGraph(W, entity) :
                 options \in {definitionOf(entity, propertyName)}})
    ELSE entityOrDefaultGraph(W, entity)

\* the resolution that falls back to the bare property name
calculatePredicateOrName(entity, propertyName) ==
    The({IF options.predicate # "" THEN options.predicate
         ELSE IF options.ns # "" THEN toNamespace(options.ns, propertyName)
         ELSE IF c.defaultNamespace # "" THEN toNamespace(c.defaultNamespace, propertyName)
         ELSE IF c.namespace # "" THEN toNamespace(c.namespace, propertyName)
         ELSE propertyName : options \in {definitionOf(entity, propertyName)},
                             c \in {classConfig[classOf(entity)]}})

\* the resolution that tries the ns option before the predicate option
calculatePredicateNsFirst(entity, propertyName) ==
    The({IF options.ns # "" THEN toNamespace(options.ns, propertyName)
         ELSE IF options.predicate # "" THEN options.predicate
         ELSE IF c.defaultNamespace # "" THEN toNamespace(c.defaultNamespace, propertyName)
         ELSE IF c.namespace # "" THEN toNamespace(c.namespace, propertyName)
         ELSE "" : options \in {definitionOf(entity, propertyName)},
                   c \in {classConfig[classOf(entity)]}})

\* calculatePredicateForProperty(entity, propertyName); "" is the case in
\* which the code throws "Could not calculate predicate"
calculatePredicateForProperty(entity, propertyName) ==
    The({IF options.predicate # "" THEN options.predicate
         ELSE IF options.ns # "" THEN toNamespace(options.ns, propertyName)
         ELSE IF c.defaultNamespace # "" THEN toNamespace(c.defaultNamespace, propertyName)
         ELSE IF c.namespace # "" THEN toNamespace(c.namespace, propertyName)
         ELSE "" : options \in {definitionOf(entity, propertyName)},
                   c \in {classConfig[classOf(entity)]}})

\* validStatement of changeGraphTriples
validStatement(statement) == ~(statement.object.k = "lit" /\ statement.object.value = Null)

\* the local half of a commit: store.addAll(ins); store.removeStatements(del)
applyLocally(store, del, ins) == removeStatements(addAll(store, ins), del)

\* changeGraphTriples(entity, del, ins, options).  entity "" is the call in
\* which the entity argument is undefined; options.modelName "" the options
\* without a modelName.  With autosave the function suspends in
\* store.update, and the rest of it runs when the update resolves.
changeGraphTriples(W, entity, del0, ins0, options) ==
    IF options.modelName = "" /\ entity = ""
    THEN \* entity.modelName of undefined: the promise rejects, the catch alerts
         [W EXCEPT !.alerts = @ + 1]
    ELSE The({IF modelName # "" /\ W.autosave[modelName]
              THEN [W EXCEPT !.pending = Append(@, [del |-> del, ins |-> ins,
                                                    origin |-> W.origin]),
                             !.commits = Append(@, [del |-> del, ins |-> ins,
                                                    remote |-> TRUE])]
              ELSE [W EXCEPT !.store = applyLocally(@, del, ins),
                             !.commits = Append(@, [del |-> del, ins |-> ins,
                                                    remote |-> FALSE])] :
                del \in {SelectSeq(del0, validStatement)},
                ins \in {SelectSeq(ins0, validStatement)},
                modelName \in {IF options.modelName # "" THEN options.modelName
                               ELSE modelNameOf(W, entity)}})

\* the text a term gives as its .value
valueOf(term) == IF term.k = "nn" THEN Str(<<term.value>>) ELSE term.value

createAll(model, terms) == [n \in DOMAIN terms |-> create(model, terms[n]).v]

subjectsOf(sts) == [n \in DOMAIN sts |-> sts[n].subject]

objectsOf(sts) == [n \in DOMAIN sts |-> sts[n].object]

\* the conversion of the term store.any found, by property type (lines
\* 104-127 and 151-153)
convert(options, response) ==
    IF response = Undefined THEN Undefined
    ELSE CASE options.type = "integer" -> ParseInt(valueOf(response).v)
           [] options.type = "boolean" ->
                Bool(valueOf(response).v \in {TrueText, <<"1">>})
           [] options.type = "term" -> response
           [] options.type = "dateTime" -> ParseDate(valueOf(response).v)
           [] options.type = "belongsTo" -> create(options.model, response)
           [] OTHER -> valueOf(response)

\* calculatePropertyValue(target, propertyName), for a property whose
\* predicate resolves
calculatePropertyValue(W, target, propertyName) ==
    The({IF options.type = "hasMany"
         THEN IF options.inverse
              THEN Arr(createAll(options.model,
                      subjectsOf(match(W.store, Undefined, predicate, uriOf(target),
                                       Graph(graphForType(options.model))))))
              ELSE Arr(createAll(options.model,
                      objectsOf(match(W.store, uriOf(target), predicate, Undefined,
                                      graph))))
         ELSE convert(options,
                      IF options.inverse
                      THEN any(W.store, Undefined, predicate, uriOf(target), graph)
                      ELSE any(W.store, uriOf(target), predicate, Undefined, graph)) :
            options \in {definitionOf(target, propertyName)},
            predicate \in {NamedNode(calculatePredicateForProperty(target, propertyName))},
            graph \in {Graph(graphForInstance(W, target, propertyName))}})

\* updatePropertyValue(entity, propertyName)
updatePropertyValue(W, entity, propertyName) ==
    IF calculatePredicateForProperty(entity, propertyName) = ""
    THEN [W EXCEPT !.thrown = TRUE]
    ELSE [W EXCEPT !.cache[<<entity, propertyName>>] =
                        calculatePropertyValue(W, entity, propertyName)]

\* the getter of a declared property: the state after it and the value read
propertyGet(W, this, propertyName) ==
    IF W.cache[<<this, propertyName>>] # Undefined
    THEN [W |-> W, value |-> W.cache[<<this, propertyName>>]]
    ELSE IF calculatePredicateForProperty(this, propertyName) = ""
    THEN [W |-> [W EXCEPT !.thrown = TRUE], value |-> Undefined]
    ELSE The({[W |-> [W EXCEPT !.cache[<<this, propertyName>>] = value],
               value |-> value] :
                value \in {calculatePropertyValue(W, this, propertyName)}})

\* the options argument of a changeGraphTriples call that passes none
NoOptions == [modelName |-> ""]

\* the replacement that deletes the statements of the property in every graph
setRelationObjectAnyGraph(W, this, predicate, graph, object) ==
    changeGraphTriples(W, this,
        match(W.store, uriOf(this), predicate, Undefined, Undefined),
        IF Truthy(object) THEN <<Statement(uriOf(this), predicate, object, graph)>>
        ELSE <<>>,
        NoOptions)

\* setRelationObject(object) of the setter: replace the statements of the
\* property by the one for object, when object is truthy
setRelationObject(W, this, predicate, graph, object) ==
    changeGraphTriples(W, this,
        match(W.store, uriOf(this), predicate, Undefined, graph),
        IF Truthy(object) THEN <<Statement(uriOf(this), predicate, object, graph)>>
        ELSE <<>>,
        NoOptions)

\* new Set(array): the members in insertion order, each once
RECURSIVE SetOf(_)
SetOf(s) ==
    IF s = <<>> THEN <<>>
    ELSE The({IF s[Len(s)] \in Range(r) THEN r ELSE Append(r, s[Len(s)]) :
                r \in {SetOf(SubSeq(s, 1, Len(s) - 1))}})

\* the copy of set a from which no member is deleted
WithoutDeleting(a, b) == a

\* a copy of set a with the members of set b deleted
Without(a, b) == LET keep(x) == x \notin Range(b) IN SelectSeq(a, keep)

RECURSIVE updateAll(_, _, _)
updateAll(W, objs, propertyName) ==
    IF objs = <<>> \/ W.thrown THEN W
    ELSE The({updateAll(W1, Tail(objs), propertyName) :
                W1 \in {updatePropertyValue(W, Head(objs), propertyName)}})

\* the calls of the change listeners at the end of the setter
notifyListeners(W, this, propertyName, value) ==
    The({[W EXCEPT !.calls = @ \o
            [n \in DOMAIN ls |->
                [listener |-> ls[n], entity |-> this, updatedField |-> propertyName,
                 newValue |-> value, cacheAtCall |-> W.cache[<<this, propertyName>>],
                 inFlight |-> Len(W.pending)]]] : ls \in {SeqOf(W.listeners[this])}})

\* the belongsTo branch of the setter (lines 262-270)
setBelongsTo(W, this, propertyName, predicate, graph, value) ==
    The({The({The({[W |-> IF inverseProperty # "" /\ Truthy(value) /\ ~W2.thrown
                          THEN updatePropertyValue(W2, value.v, inverseProperty)
                          ELSE W2,
                    value |-> value] :
                W2 \in {IF inverseProperty # "" /\ Truthy(read.value)
                        THEN updatePropertyValue(W1, read.value.v, inverseProperty)
                        ELSE W1}}) :
            W1 \in {setRelationObject(read.W, this, predicate, graph,
                        IF Truthy(value) THEN uriOf(value.v) ELSE value)}}) :
        read \in {propertyGet(W, this, propertyName)},
        inverseProperty \in {definitionOf(this, propertyName).inverseProperty}})

\* the statements of a hasMany property for a set of related objects
statementsFor(this, predicate, graph, objs) ==
    [n \in DOMAIN objs |-> Statement(uriOf(this), predicate, uriOf(objs[n]), graph)]

\* the hasMany branch of the setter from the diff on (lines 288-307)
commitHasMany(W, this, predicate, graph, inverseProperty, objectsToAdd, objectsToRemove) ==
    The({IF inverseProperty # ""
         THEN updateAll(W2, objectsToAdd \o objectsToRemove, inverseProperty)
         ELSE W2 :
            W2 \in {changeGraphTriples(W, this,
                        statementsFor(this, predicate, graph, objectsToRemove),
                        statementsFor(this, predicate, graph, objectsToAdd),
                        NoOptions)}})

\* the hasMany branch of the setter (lines 271-308)
setHasMany(W, this, propertyName, predicate, graph, value0) ==
    The({The({The({[W |-> commitHasMany(W1, this, predicate, graph,
                            definitionOf(this, propertyName).inverseProperty,
                            Without(newObjects, oldObjects.v),
                            Without(oldObjects.v, newObjects)),
                    value |-> value] :
                W1 \in {IF ~Truthy(oldObjects)
                        THEN [read.W EXCEPT !.logged = TRUE,
                                !.store = @ \ Range(match(@, uriOf(this), predicate,
                                                          Undefined, graph))]
                        ELSE read.W}}) :
            oldObjects \in {[k |-> "set",
                             v |-> SetOf(IF Truthy(read.value) THEN read.value.v
                                         ELSE <<>>)]},
            newObjects \in {SetOf(value.v)}}) :
        read \in {propertyGet(W, this, propertyName)},
        value \in {IF Truthy(value0) THEN value0 ELSE Arr(<<>>)}})

\* the object of the statement a scalar property gets for a value (lines
\* 250-260 and 310); the setter of a term passes a variable it never assigns
objectFor(type, value) ==
    CASE type = "string" -> Literal(value, "")
      [] type = "integer" ->
            Literal(IF value.k = "num" THEN Str(NumToString(value.v)) ELSE value,
                    "xsd:decimal")
      [] type = "boolean" ->
            Literal(Str(IF Truthy(value) THEN TrueText ELSE FalseText), "xsd:boolean")
      [] type = "dateTime" -> Literal(Str(ToUTCString(value)), "xsd:dateTime")
      [] OTHER -> Undefined

\* the write the setter does in the store, by property type (lines 249-312):
\* the state after it and the value the cache slot is to take
setByType(W, this, propertyName, value) ==
    The({CASE type = "belongsTo" ->
                setBelongsTo(W, this, propertyName, predicate, graph, value)
           [] type = "hasMany" ->
                setHasMany(W, this, propertyName, predicate, graph, value)
           [] type = "dateTime" /\ value.k # "date" ->
                \* value.toUTCString() of null throws
                [W |-> [W EXCEPT !.thrown = TRUE], value |-> value]
           [] type \in {"string", "integer", "boolean", "dateTime", "term"} ->
                [W |-> setRelationObject(W, this, predicate, graph,
                                         objectFor(type, value)),
                 value |-> value]
           [] OTHER -> [W |-> W, value |-> value] :
        type \in {definitionOf(this, propertyName).type},
        predicate \in {NamedNode(calculatePredicateForProperty(this, propertyName))},
        graph \in {Graph(graphForInstance(W, this, propertyName))}})

\* the setter that leaves the cache slot as it is
updateCacheSkipped(W, this, propertyName, value) ==
    [W EXCEPT !.sets = Append(@, <<this, propertyName>>)]

\* set(this, cacheKey, value) of the setter (line 314)
updateCache(W, this, propertyName, value) ==
    [W EXCEPT !.cache[<<this, propertyName>>] = value,
              !.sets = Append(@, <<this, propertyName>>)]

\* the setter of a declared property (lines 233-321)
propertySet(W, this, propertyName, value) ==
    IF calculatePredicateForProperty(this, propertyName) = ""
    THEN [W EXCEPT !.thrown = TRUE]
    ELSE The({IF done.W.thrown THEN done.W
              ELSE The({notifyListeners(W1, this, propertyName, done.value) :
                          W1 \in {updateCache(done.W, this, propertyName, done.value)}}) :
                done \in {setByType(W, this, propertyName, value)}})

\* this.attributes.forEach((attr) => this[attr] = null) of destroy
RECURSIVE clearAll(_, _, _)
clearAll(W, this, attrs) ==
    IF attrs = <<>> \/ W.thrown THEN W
    ELSE The({clearAll(W1, this, Tail(attrs)) :
                W1 \in {propertySet(W, this, Head(attrs), Null)}})

typeStatement(entity, graph) ==
    Statement(uriOf(entity), NamedNode(RDFType),
              NamedNode(classConfig[classOf(entity)].rdfType), graph)

\* SemanticModel.destroy (lines 428-437)
destroy(W, this) ==
    The({IF W1.thrown THEN W1
         ELSE changeGraphTriples(W1, this,
                <<typeStatement(this, Graph(graphForInstance(W1, this, "")))>>,
                <<>>, NoOptions) :
            W1 \in {clearAll(W, this, attributes[classOf(this)])}})

\* ensureResourceExists(entity, options) (lines 497-519); the entity of its
\* changeGraphTriples call is the undefined this of a module function
ensureResourceExists(W, entity, options) ==
    The({IF \E st \in Range(match(W.store, uriOf(entity), Undefined,
                                  NamedNode(classConfig[classOf(entity)].rdfType),
                                  targetGraph)) : st.predicate.value = RDFType
         THEN W
         ELSE changeGraphTriples(W, "", <<>>, <<typeStatement(entity, targetGraph)>>,
                                 options) :
            targetGraph \in {Graph(entityOrDefaultGraph(W, entity))}})

\* the constructor (lines 441-480), for options {store, uri} with or without
\* a modelName
construct(W, this, options) ==
    The({ensureResourceExists(W1, this, options) :
            W1 \in {[W EXCEPT !.ent[this] = [constructed |-> TRUE,
                                             modelName |-> options.modelName]]}})

(***************************************************************************)
(* The state machine.                                                      *)
(***************************************************************************)
VARIABLES
    store,      \* the statements of the local in-memory store
    cache,      \* the cache slot of every entity and declared property
    pending,    \* the remote updates in flight, in the order they were issued
    ent,        \* per application entity: constructed, and its modelName
    listeners,  \* the changeListeners of every entity
    autosave,   \* store.getAutosaveForType of every model
    scope,      \* the entities and properties the application works with
    assigned,   \* per slot: the value last assigned to it, Undefined when it
                \* was never assigned or was recomputed since
    previous,   \* per slot: the value assigned before the last assigned one
    writes,     \* the number of setter and destroy calls so far
    failed,     \* whether a remote update has been rejected
    seen,       \* per slot the application reads and never assigns: the value
                \* its last read returned, NotRead when it was not read, or was
                \* recomputed since
    last        \* what the last operation was and what it did

vars == <<store, cache, pending, ent, listeners, autosave, scope, assigned, previous,
          writes, failed, seen, last>>

NotRead == [k |-> "unread"]

\* the state the functions of the entity code work on, at the start of an
\* operation
World(origin) ==
    [store |-> store, cache |-> cache, pending |-> pending, ent |-> ent,
     listeners |-> listeners, autosave |-> autosave, origin |-> origin,
     thrown |-> FALSE, calls |-> <<>>, alerts |-> 0, logged |-> FALSE,
     commits |-> <<>>, sets |-> <<>>]

NoUpdate == [del |-> <<>>, ins |-> <<>>, origin |-> [op |-> "none"]]

\* the record of an operation: op on the property of an entity with value
\* as its argument, W the state when it returned, result what it returned
Record(op, entity, property, value, W, result) ==
    [op |-> op, entity |-> entity, property |-> property, value |-> value,
     result |-> result, thrown |-> W.thrown, calls |-> W.calls, alerts |-> W.alerts,
     logged |-> W.logged, commits |-> W.commits, update |-> NoUpdate,
     before |-> IF property = "" THEN Undefined ELSE cache[<<entity, property>>],
     earlier |-> IF op = "get" THEN seen[<<entity, property>>] ELSE NotRead,
     removed |->
        IF op = "set"
        THEN {st \in store :
                /\ st.subject = uriOf(entity)
                /\ st.predicate = NamedNode(calculatePredicateForProperty(entity, property))
                /\ \/ st \notin W.store
                   \/ \E c \in Range(W.commits) : st \in Range(c.del)}
        ELSE {},
     known |->
        /\ op = "construct"
        /\ typeStatement(entity, Graph(entityOrDefaultGraph(W, entity)))
                \in store \cup UNION {Range(u.ins) : u \in Range(pending)}]

\* the operation-local part of a state in which no function of the entity
\* code has run
NoWorld == [thrown |-> FALSE, calls |-> <<>>, alerts |-> 0, logged |-> FALSE,
            commits |-> <<>>]

\* the values an application assigns to a property, by its type
ValuesOf(i, p) ==
    LET type == definitionOf(i, p).type
    IN  CASE type = "string" -> {Str(<<"a">>), Str(<<>>), Null}
          [] type = "integer" -> {Num(42), Num(0), Null}
          [] type = "boolean" -> {Bool(TRUE), Bool(FALSE), Null}
          [] type = "dateTime" -> {DateV(5, 0), DateV(5, 250), Null}
          [] type = "term" -> {NamedNode("urn:home"), Literal(Str(<<"h">>), ""), Null}
          [] type = "belongsTo" ->
                {Ent(j) : j \in {x \in scope.entities \cup scope.given :
                                    ent[x].constructed
                                    /\ classOf(x) = definitionOf(i, p).model}} \cup {Null}
          [] type = "hasMany" -> {Arr(l) : l \in scope.lists} \cup {Null}
          [] OTHER -> {}

\* the slots whose cached value an operation recomputed from the store
Recomputed(W, target) == {sl \in Slots \ {target} : W.cache[sl] # cache[sl]}

\* the state of the program after an operation that ended in state W
Commit(W) ==
    /\ store' = W.store
    /\ cache' = W.cache
    /\ pending' = W.pending
    /\ ent' = W.ent
    /\ Len(W.pending) <= MaxPending

\* the writes of a property whose remote update is in flight
Racing(i, p) ==
    {u.origin.serial : u \in {x \in Range(pending) :
                                /\ x.origin.op = "set"
                                /\ x.origin.entity = i
                                /\ x.origin.property = p}}

\* new Model({store, uri, modelName?})
Construct(i, withModelName) ==
    /\ i \in scope.entities
    /\ ~ent[i].constructed
    /\ withModelName \/ scope.bare
    /\ \E W \in {construct(World([op |-> "construct", entity |-> i]), i,
                             [modelName |-> IF withModelName THEN classOf(i) ELSE ""])} :
        /\ Commit(W)
        /\ last' = Record("construct", i, "", Undefined, W, Undefined)
        /\ UNCHANGED <<listeners, autosave, scope, assigned, previous, writes, failed,
                       seen>>

\* entity[propertyName]
Get(i, p) ==
    /\ <<i, p>> \in scope.reads
    /\ ent[i].constructed
    /\ \E read \in {propertyGet(World([op |-> "get", entity |-> i]), i, p)} :
        /\ Commit(read.W)
        /\ seen' = IF read.W.thrown \/ <<i, p>> \in scope.writes THEN seen
                   ELSE [seen EXCEPT ![<<i, p>>] = read.value]
        /\ last' = Record("get", i, p, Undefined, read.W, read.value)
        /\ UNCHANGED <<listeners, autosave, scope, assigned, previous, writes, failed>>

\* entity[propertyName] = value
Set(i, p, value) ==
    /\ <<i, p>> \in scope.writes
    /\ ent[i].constructed
    /\ value \in ValuesOf(i, p)
    /\ writes < MaxWrites
    /\ \E W \in {propertySet(World([op |-> "set", entity |-> i, property |-> p,
                                      value |-> value, serial |-> writes + 1,
                                      racing |-> Racing(i, p)]),
                               i, p, value)} :
        /\ Commit(W)
        /\ writes' = writes + 1
        /\ \E recomputed \in {Recomputed(W, <<i, p>>)} :
            /\ assigned' = [sl \in Slots |->
                                IF sl = <<i, p>> /\ ~W.thrown THEN value
                                ELSE IF sl \in recomputed THEN Undefined
                                ELSE assigned[sl]]
            /\ previous' = [sl \in Slots |->
                                IF sl = <<i, p>> /\ ~W.thrown THEN assigned[sl]
                                ELSE IF sl \in recomputed THEN Undefined
                                ELSE previous[sl]]
            /\ seen' = [sl \in Slots |->
                            IF (sl = <<i, p>> /\ ~W.thrown) \/ sl \in recomputed
                            THEN NotRead ELSE seen[sl]]
        /\ last' = Record("set", i, p, value, W, Undefined)
        /\ UNCHANGED <<listeners, autosave, scope, failed>>

\* entity.destroy()
Destroy(i) ==
    /\ i \in scope.entities
    /\ ent[i].constructed
    /\ writes < MaxWrites
    /\ \E W \in {destroy(World([op |-> "destroy", entity |-> i,
                                  serial |-> writes + 1]), i)} :
        /\ Commit(W)
        /\ writes' = writes + 1
        /\ \E cleared \in {Range(W.sets)} :
           \E recomputed \in {Recomputed(W, <<i, "">>) \ cleared} :
            /\ assigned' = [sl \in Slots |->
                                IF sl \in cleared THEN Null
                                ELSE IF sl \in recomputed THEN Undefined
                                ELSE assigned[sl]]
            /\ previous' = [sl \in Slots |->
                                IF sl \in cleared THEN assigned[sl]
                                ELSE IF sl \in recomputed THEN Undefined
                                ELSE previous[sl]]
            /\ seen' = [sl \in Slots |->
                            IF sl \in cleared \cup recomputed THEN NotRead
                            ELSE seen[sl]]
        /\ last' = Record("destroy", i, "", Undefined, W, Undefined)
        /\ UNCHANGED <<listeners, autosave, scope, failed>>

\* entity.addChangeListener(listener)
AddChangeListener(i, listener) ==
    /\ i \in scope.observed
    /\ ent[i].constructed
    /\ listener \notin listeners[i]
    /\ Cardinality(listeners[i]) < MaxListeners
    /\ listeners' = [listeners EXCEPT ![i] = @ \cup {listener}]
    /\ last' = Record("addChangeListener", i, "", Undefined, NoWorld, Undefined)
    /\ UNCHANGED <<store, cache, pending, ent, autosave, scope, assigned, previous,
                   writes, failed, seen>>

\* entity.removeChangeListener(listener)
RemoveChangeListener(i, listener) ==
    /\ i \in scope.observed
    /\ ent[i].constructed
    /\ listener \in listeners[i]
    /\ listeners' = [listeners EXCEPT ![i] = @ \ {listener}]
    /\ last' = Record("removeChangeListener", i, "", Undefined, NoWorld, Undefined)
    /\ UNCHANGED <<store, cache, pending, ent, autosave, scope, assigned, previous,
                   writes, failed, seen>>

RemoveAt(s, n) == SubSeq(s, 1, n - 1) \o SubSeq(s, n + 1, Len(s))

\* store.update of the n-th update in flight resolves: changeGraphTriples
\* resumes after its await and applies the diff to the local store
UpdateResolves(n) ==
    /\ n \in DOMAIN pending
    /\ store' = applyLocally(store, pending[n].del, pending[n].ins)
    /\ pending' = RemoveAt(pending, n)
    /\ last' = [Record("resolve", pending[n].origin.entity, "", Undefined, NoWorld,
                       Undefined) EXCEPT !.update = pending[n]]
    /\ UNCHANGED <<cache, ent, listeners, autosave, scope, assigned, previous, writes,
                   failed, seen>>

\* store.update of the n-th update in flight rejects: the await throws, the
\* promise of changeGraphTriples rejects and its catch calls sendAlert
UpdateRejects(n) ==
    /\ n \in DOMAIN pending
    /\ pending' = RemoveAt(pending, n)
    /\ failed' = TRUE
    /\ last' = [Record("reject", pending[n].origin.entity, "", Undefined,
                       [NoWorld EXCEPT !.alerts = 1], Undefined)
                    EXCEPT !.update = pending[n]]
    /\ UNCHANGED <<store, cache, ent, listeners, autosave, scope, assigned, previous,
                   writes, seen>>

(***************************************************************************)
(* The applications the model runs.  Each names the entities it constructs *)
(* (bare: also with options that carry no modelName), the entities that    *)
(* exist from the start, the entities it registers listeners on, the       *)
(* properties it reads and writes, the lists it assigns to a hasMany       *)
(* property, and the statements the store may hold at the start (loaded    *)
(* from the remote graphs).                                                *)
(***************************************************************************)
Quad(s, p, o, g) == Statement(NamedNode(s), NamedNode(p), o, NamedNode(g))

TitleScope ==
    [entities |-> {"B1"}, given |-> {}, bare |-> FALSE, observed |-> {},
     reads |-> {<<"B1", "title">>},
     writes |-> {<<"B1", "title">>},
     lists |-> {},
     seed |-> {Quad("urn:b1", "dct:title", Literal(Str(<<"a">>), ""), "g:books")}]

PagesScope ==
    [entities |-> {"B1"}, given |-> {}, bare |-> FALSE, observed |-> {},
     reads |-> {<<"B1", "pages">>},
     writes |-> {<<"B1", "pages">>},
     lists |-> {},
     seed |-> {Quad("urn:b1", "schema:numberOfPages",
                    Literal(Str(<<"3", "0">>), "xsd:decimal"), "g:books")}]

StockScope ==
    [entities |-> {"E1"}, given |-> {}, bare |-> FALSE, observed |-> {},
     reads |-> {<<"E1", "inStock">>},
     writes |-> {<<"E1", "inStock">>},
     lists |-> {},
     seed |-> {Quad("urn:e1", "schema:inStock", Literal(Str(<<"1">>), "xsd:boolean"),
                    "g:editions")}]

HomepageScope ==
    [entities |-> {"E1"}, given |-> {}, bare |-> FALSE, observed |-> {},
     reads |-> {<<"E1", "homepage">>},
     writes |-> {<<"E1", "homepage">>},
     lists |-> {},
     seed |-> {Quad("urn:e1", "foaf:homepage", NamedNode("urn:old"), "g:editions")}]

PublishedScope ==
    [entities |-> {"E1"}, given |-> {}, bare |-> FALSE, observed |-> {"E1"},
     reads |-> {<<"E1", "published">>},
     writes |-> {<<"E1", "published">>},
     lists |-> {},
     seed |-> {Quad("urn:e1", "dct:issued", Literal(Str(<<"G", "M", "T", "7">>),
                    "xsd:dateTime"), "g:editions")}]

\* the application that works with a property no predicate resolves for
MemoScope ==
    [entities |-> {"M1"}, given |-> {}, bare |-> FALSE, observed |-> {"M1"},
     reads |-> {<<"M1", "text">>},
     writes |-> {<<"M1", "text">>},
     lists |-> {},
     seed |-> {Quad("urn:m1", "text", Literal(Str(<<"a">>), ""), "g:memos")}]

ScalarScopes ==
    {TitleScope, PagesScope, StockScope, HomepageScope, PublishedScope, MemoScope}

RelationScope ==
    [entities |-> {"B1"}, given |-> {"A1"}, bare |-> FALSE, observed |-> {"B1"},
     reads |-> {<<"B1", "author">>, <<"A1", "books">>},
     writes |-> {<<"B1", "author">>},
     lists |-> {},
     seed |-> {Quad("urn:b2", "schema:author", NamedNode("urn:a1"), "g:books")}]

\* the application that assigns the inverse side of the relation
InverseScope ==
    [entities |-> {"A1"}, given |-> {"B1"}, bare |-> FALSE, observed |-> {"A1"},
     reads |-> {<<"A1", "books">>},
     writes |-> {<<"A1", "books">>},
     lists |-> {<<>>, <<"B1">>},
     seed |-> {Quad("urn:b1", "schema:author", NamedNode("urn:a1"), "g:books")}]

FavoritesScope ==
    [entities |-> {"A1"}, given |-> {"B1", "B2", "B3"}, bare |-> FALSE,
     observed |-> {"A1"},
     reads |-> {<<"A1", "favorites">>},
     writes |-> {<<"A1", "favorites">>},
     lists |-> {<<>>, <<"B1", "B2">>, <<"B2", "B3">>, <<"B1", "B1">>},
     seed |-> {Quad("urn:a1", "ext:favorites", NamedNode("urn:b1"), "g:authors")}]

TwinScope ==
    [entities |-> {"A1", "A1x"}, given |-> {"B1"}, bare |-> TRUE, observed |-> {"A1"},
     reads |-> {<<"A1", "favorites">>},
     writes |-> {<<"A1x", "favorites">>},
     lists |-> {<<"B1">>},
     seed |-> {}]

\* the application that assigns one property of an entity and reads another,
\* on a store that holds statements of other subjects and graphs
FrameScope ==
    [entities |-> {"E1"}, given |-> {}, bare |-> FALSE, observed |-> {"E1"},
     reads |-> {<<"E1", "inStock">>, <<"E1", "homepage">>},
     writes |-> {<<"E1", "inStock">>},
     lists |-> {},
     seed |-> {Quad("urn:e1", "foaf:homepage", NamedNode("urn:old"), "g:editions"),
               Quad("urn:e2", "schema:inStock", Literal(Str(<<"1">>), "xsd:boolean"),
                    "g:editions"),
               Quad("urn:e1", "schema:inStock", Literal(Str(<<"1">>), "xsd:boolean"),
                    "g:other")}]

\* the application that reads a scalar property through one object and
\* assigns it through another object of the same uri
StockTwinScope ==
    [entities |-> {"E1", "E1x"}, given |-> {}, bare |-> FALSE, observed |-> {},
     reads |-> {<<"E1", "inStock">>},
     writes |-> {<<"E1x", "inStock">>},
     lists |-> {},
     seed |-> {}]

Scopes ==
    ScalarScopes \cup {RelationScope, InverseScope, FavoritesScope, TwinScope,
                       StockTwinScope, FrameScope}

\* every value some application assigns
Values ==
    {Str(<<"a">>), Str(<<>>), Num(42), Num(0), Bool(TRUE), Bool(FALSE), DateV(5, 0),
     DateV(5, 250), NamedNode("urn:home"), Literal(Str(<<"h">>), ""), Null}
    \cup {Ent(i) : i \in AppEntities}
    \cup {Arr(l) : l \in UNION {sc.lists : sc \in Scopes}}

\* the statement ensureResourceExists asserts for an entity with a modelName
typeQuad(i) ==
    Quad(entityDef[i].uri, RDFType, classConfig[classOf(i)].rdfType,
         IF getGraphForType(classOf(i)) # "" THEN getGraphForType(classOf(i))
         ELSE defaultGraphOf(i))

InitIn(scopes) ==
    /\ scope \in scopes
    /\ store \in {seeded \cup {typeQuad(i) : i \in scope.given} :
                    seeded \in SUBSET scope.seed}
    /\ autosave \in {[m \in Models |-> b] : b \in BOOLEAN}
    /\ cache = [sl \in Slots |-> Undefined]
    /\ pending = <<>>
    /\ ent = [i \in AppEntities |->
                IF i \in scope.given
                THEN [constructed |-> TRUE, modelName |-> classOf(i)]
                ELSE [constructed |-> FALSE, modelName |-> ""]]
    /\ listeners = [i \in Entities |-> {}]
    /\ assigned = [sl \in Slots |-> Undefined]
    /\ previous = [sl \in Slots |-> Undefined]
    /\ writes = 0
    /\ failed = FALSE
    /\ seen = [sl \in Slots |-> NotRead]
    /\ last = [op |-> "init", entity |-> "", property |-> "", value |-> Undefined,
               result |-> Undefined, thrown |-> FALSE, calls |-> <<>>, alerts |-> 0,
               logged |-> FALSE, commits |-> <<>>, update |-> NoUpdate,
               before |-> Undefined, earlier |-> NotRead, removed |-> {},
               known |-> FALSE]

Next ==
    \/ \E i \in AppEntities, withModelName \in BOOLEAN : Construct(i, withModelName)
    \/ \E sl \in Slots : Get(sl[1], sl[2])
    \/ \E sl \in Slots, value \in Values : Set(sl[1], sl[2], value)
    \/ \E i \in AppEntities : Destroy(i)
    \/ \E i \in AppEntities, listener \in Listeners : AddChangeListener(i, listener)
    \/ \E i \in AppEntities, listener \in Listeners : RemoveChangeListener(i, listener)
    \/ \E n \in 1..MaxPending : UpdateResolves(n)
    \/ \E n \in 1..MaxPending : UpdateRejects(n)

\* the applications that work with scalar properties
InitScalar == InitIn(ScalarScopes)

SpecScalar == InitScalar /\ [][Next]_vars

\* the applications that work with a belongsTo relation and its inverse
InitRelation == InitIn({RelationScope, InverseScope})

SpecRelation == InitRelation /\ [][Next]_vars

\* the application that works with a hasMany relation
InitFavorites == InitIn({FavoritesScope})

SpecFavorites == InitFavorites /\ [][Next]_vars

\* the application that assigns one property next to other statements
InitFrame == InitIn({FrameScope})

SpecFrame == InitFrame /\ [][Next]_vars

\* the applications that construct two entities with one uri
InitTwin == InitIn({TwinScope, StockTwinScope})

SpecTwin == InitTwin /\ [][Next]_vars

(***************************************************************************)
(* Properties.                                                             *)
(***************************************************************************)
ScalarTypes == {"string", "integer", "boolean", "dateTime", "term"}

typeOf(sl) == definitionOf(sl[1], sl[2]).type

lastSlot == <<last.entity, last.property>>

\* the uris of the entities of a list
urisOf(list) == {uriOf(list[n]) : n \in DOMAIN list}

\* the state as the functions of the entity code see it
Current == World([op |-> "none"])

\* C1: reading a scalar property after it was assigned a non-null value X
\* returns X, whatever the store and the cache slot held before the
\* assignment.
C1_RoundTrip ==
    (/\ last.op = "get"
     /\ typeOf(lastSlot) \in ScalarTypes
     /\ assigned[lastSlot] \notin {Undefined, Null})
        => ~last.thrown /\ last.result = assigned[lastSlot]

\* a term was assigned and read back while the store holds no statement of
\* the property
C1_Witness ==
    /\ last.op = "get"
    /\ typeOf(lastSlot) = "term"
    /\ last.result = NamedNode("urn:home")
    /\ assigned[lastSlot] = NamedNode("urn:home")
    /\ match(store, uriOf(last.entity), NamedNode("foaf:homepage"), Undefined,
             Undefined) = <<>>

\* equality of two values of a property, under the comparison of its type:
\* an absent value is null or undefined, a date is compared to the second
Equivalent(a, b) ==
    \/ a = b
    \/ a \in {Undefined, Null} /\ b \in {Undefined, Null}
    \/ a.k = "date" /\ b.k = "date" /\ a.sec = b.sec

\* C2: when no commit is in flight, every populated cache slot of a forward
\* scalar property holds the value that materializing the property from the
\* local store yields.
C2_CacheMatchesStore ==
    pending = <<>> =>
        \A sl \in Slots :
            (/\ sl[1] \in AppEntities
             /\ ent[sl[1]].constructed
             /\ typeOf(sl) \in ScalarTypes
             /\ ~definitionOf(sl[1], sl[2]).inverse
             /\ cache[sl] # Undefined)
                => Equivalent(cache[sl], calculatePropertyValue(Current, sl[1], sl[2]))

\* the local store reflects a diff: every insert is present and every
\* delete absent (a statement that is deleted and inserted again counts as
\* neither)
Reflects(del, ins) ==
    /\ Range(ins) \ Range(del) \subseteq store
    /\ (Range(del) \ Range(ins)) \cap store = {}

\* C3: when the setter returns, the local store reflects the diff of the
\* write and the cache slot holds the new value, with autosave as without.
C3_SetterAppliesLocally ==
    (last.op = "set" /\ ~last.thrown)
        => /\ \A n \in DOMAIN last.commits :
                Reflects(last.commits[n].del, last.commits[n].ins)
           /\ cache[lastSlot] = IF typeOf(lastSlot) = "hasMany" /\ last.value = Null
                                THEN Arr(<<>>) ELSE last.value

\* C4: when the remote update of a property write rejects, the cache slot
\* keeps the assigned value and the diff of the write is applied to the
\* local store (stated for the latest write, so that no later write has
\* changed the slot or the statements).
C4_RejectKeepsLocalWrite ==
    (/\ last.op = "reject"
     /\ last.update.origin.op = "set"
     /\ last.update.origin.serial = writes)
        => /\ cache[<<last.update.origin.entity, last.update.origin.property>>]
                = last.update.origin.value
           /\ Reflects(last.update.del, last.update.ins)

\* C5: reading the inverse property on B returns a collection that holds
\* every entity whose belongsTo property is assigned B, and does not hold an
\* entity whose belongsTo property was assigned B and then cleared.
C5_InverseFollows ==
    (last.op = "get" /\ ~last.thrown /\ typeOf(lastSlot) = "hasMany")
        => \A sl \in Slots :
            (/\ typeOf(sl) = "belongsTo"
             /\ definitionOf(sl[1], sl[2]).inverseProperty = last.property
             /\ definitionOf(sl[1], sl[2]).model = classOf(last.entity))
                => /\ assigned[sl] = Ent(last.entity)
                        => uriOf(sl[1]) \in urisOf(last.result.v)
                   /\ (assigned[sl] = Null /\ previous[sl] = Ent(last.entity))
                        => uriOf(sl[1]) \notin urisOf(last.result.v)

\* the list a hasMany property takes for an assigned value
listOf(value) == IF value.k = "arr" THEN value.v ELSE <<>>

\* C6: the diff of an assignment to a hasMany property that was assigned
\* before inserts one statement for every entity of the new list that is not
\* in the old one and deletes one for every entity of the old list that is
\* not in the new one; [A, B] then [B, C] inserts C and deletes A.
C6_HasManyDiff ==
    (/\ last.op = "set"
     /\ typeOf(lastSlot) = "hasMany"
     /\ previous[lastSlot] \notin {Undefined})
        => /\ ~last.thrown
           /\ Len(last.commits) = 1
           /\ \E old \in {Range(listOf(previous[lastSlot]))},
                 new \in {Range(listOf(assigned[lastSlot]))},
                 c \in {last.commits[1]} :
                /\ Len(c.ins) = Cardinality(new \ old)
                /\ Len(c.del) = Cardinality(old \ new)
                /\ Range(c.ins) =
                        {Statement(uriOf(last.entity),
                                   NamedNode(calculatePredicateForProperty(
                                                last.entity, last.property)),
                                   uriOf(x),
                                   Graph(graphForInstance(Current, last.entity,
                                                          last.property))) :
                            x \in new \ old}
                /\ Range(c.del) =
                        {Statement(uriOf(last.entity),
                                   NamedNode(calculatePredicateForProperty(
                                                last.entity, last.property)),
                                   uriOf(x),
                                   Graph(graphForInstance(Current, last.entity,
                                                          last.property))) :
                            x \in old \ new}

\* [B1, B2] then [B2, B3]: one insert, for B3, and one delete, for B1
C6_Witness ==
    /\ last.op = "set"
    /\ previous[lastSlot] = Arr(<<"B1", "B2">>)
    /\ assigned[lastSlot] = Arr(<<"B2", "B3">>)
    /\ last.commits[1].ins =
            <<Quad("urn:a1", "ext:favorites", NamedNode("urn:b3"), "g:authors")>>
    /\ last.commits[1].del =
            <<Quad("urn:a1", "ext:favorites", NamedNode("urn:b1"), "g:authors")>>

\* C7: after destroy() and once its commits have settled (none rejected), the
\* store holds no type statement of the entity in its target graph.
C7_DestroyRetractsType ==
    (/\ \/ last.op = "destroy"
        \/ last.op = "resolve" /\ last.update.origin.op = "destroy"
     /\ pending = <<>>
     /\ ~failed)
        => typeStatement(last.entity, Graph(graphForInstance(Current, last.entity, "")))
                \notin store

\* C8: a construction that finds the type statement of its uri asserted
\* already, in the store or by an insert still in flight, issues no insert.
C8_TypeAssertedOnce ==
    (last.op = "construct" /\ last.known) => last.commits = <<>>

\* C9: an assignment calls every registered listener exactly once before it
\* returns, with the entity, the property name and the assigned value, the
\* cache slot holding that value and the update of the write still in flight.
C9_ListenersNotified ==
    last.op = "set"
        => /\ \A l \in listeners[last.entity] :
                Cardinality({n \in DOMAIN last.calls : last.calls[n].listener = l}) = 1
           /\ \A n \in DOMAIN last.calls :
                /\ last.calls[n].listener \in listeners[last.entity]
                /\ last.calls[n].entity = last.entity
                /\ last.calls[n].updatedField = last.property
                /\ last.calls[n].newValue =
                        IF typeOf(lastSlot) = "hasMany" /\ last.value = Null
                        THEN Arr(<<>>) ELSE last.value
                /\ last.calls[n].cacheAtCall = last.calls[n].newValue
                /\ last.calls[n].inFlight = Len(pending)

\* C10: assigning the empty list to a hasMany property without inverse and
\* without a cached value logs the bulk-clear error and removes no statement
\* of the property that the store held.
C10_BulkClearLogged ==
    (/\ last.op = "set"
     /\ typeOf(lastSlot) = "hasMany"
     /\ definitionOf(last.entity, last.property).inverseProperty = ""
     /\ last.before = Undefined
     /\ last.value = Arr(<<>>))
        => last.logged /\ last.removed = {}

\* C11: reading or assigning a property for which no predicate resolves
\* throws, and the failed operation leaves the local store and the cache slot
\* of the property as they were, issues no remote update and calls no change
\* listener.
C11_UnresolvedPredicateThrows ==
    [][(/\ last'.op \in {"get", "set"}
        /\ definitionOf(last'.entity, last'.property).predicate = ""
        /\ definitionOf(last'.entity, last'.property).ns = ""
        /\ classConfig[classOf(last'.entity)].defaultNamespace = ""
        /\ classConfig[classOf(last'.entity)].namespace = "")
            => /\ last'.thrown
               /\ store' = store
               /\ cache'[<<last'.entity, last'.property>>]
                    = cache[<<last'.entity, last'.property>>]
               /\ pending' = pending
               /\ last'.commits = <<>>
               /\ last'.calls = <<>>]_vars

\* an assignment to the property of the memo threw while a listener was
\* registered and the store held a statement of the memo
C11_Witness ==
    /\ last.op = "set"
    /\ last.entity = "M1"
    /\ last.property = "text"
    /\ last.thrown
    /\ listeners["M1"] # {}
    /\ \E st \in store : st.subject = uriOf("M1") /\ st.predicate.value = "text"

\* the first non-empty text of a sequence, "" when there is none
RECURSIVE FirstNonEmpty(_)
FirstNonEmpty(texts) ==
    IF texts = <<>> THEN ""
    ELSE IF Head(texts) # "" THEN Head(texts)
    ELSE FirstNonEmpty(Tail(texts))

\* a name in a namespace, "" when the namespace is not given
InNamespace(ns, name) == IF ns = "" THEN "" ELSE ns \o name

\* the predicate the precedence rule gives a slot: the predicate option, the
\* ns option, the defaultNamespace of the entity, the namespace of the class
expectedPredicate(sl) ==
    FirstNonEmpty(<<definitionOf(sl[1], sl[2]).predicate,
                    InNamespace(definitionOf(sl[1], sl[2]).ns, sl[2]),
                    InNamespace(classConfig[classOf(sl[1])].defaultNamespace, sl[2]),
                    InNamespace(classConfig[classOf(sl[1])].namespace, sl[2])>>)

\* C12: the predicate of a property is the first non-empty of its predicate
\* option, its ns option, the defaultNamespace of the entity and the
\* namespace of the class, the last three applied to the property name; the
\* statements an assignment commits carry that predicate.
C12_PredicatePrecedence ==
    /\ \A sl \in Slots :
            calculatePredicateForProperty(sl[1], sl[2]) = expectedPredicate(sl)
    /\ last.op = "set"
            => \A n \in DOMAIN last.commits :
               \A st \in Range(last.commits[n].ins) \cup Range(last.commits[n].del) :
                    st.predicate = NamedNode(expectedPredicate(lastSlot))

\* a property with both a predicate and an ns option was assigned, and the
\* statement committed for it carries the predicate option
C12_Witness ==
    /\ last.op = "set"
    /\ definitionOf(last.entity, last.property).predicate = "schema:numberOfPages"
    /\ definitionOf(last.entity, last.property).ns = "dct:"
    /\ Len(last.commits) = 1
    /\ Len(last.commits[1].ins) = 1
    /\ last.commits[1].ins[1].predicate = NamedNode("schema:numberOfPages")

\* the statements of a property of an entity that the local store holds in
\* the graph of the property
stored(sl) ==
    {st \in store :
        /\ st.subject = uriOf(sl[1])
        /\ st.predicate = NamedNode(calculatePredicateForProperty(sl[1], sl[2]))
        /\ st.graph = Graph(graphForInstance(Current, sl[1], sl[2]))}

\* the literal or term that stands for a value of a scalar property
termFor(type, value) == IF type = "term" THEN value ELSE objectFor(type, value)

\* the last operation settled an assignment: a setter that committed without
\* a remote update, or the resolution of the update of the only write so far
settledSet ==
    \/ /\ last.op = "set"
       /\ ~last.thrown
       /\ \A n \in DOMAIN last.commits : ~last.commits[n].remote
    \/ /\ last.op = "resolve"
       /\ last.update.origin.op = "set"
       /\ writes = 1
       /\ ~failed

writtenSlot ==
    IF last.op = "resolve"
    THEN <<last.update.origin.entity, last.update.origin.property>>
    ELSE lastSlot

writtenValue == IF last.op = "resolve" THEN last.update.origin.value ELSE last.value

\* C13: once the assignment of a non-null value X to a scalar property has
\* settled, the statements of the property in the local store are exactly
\* the one whose object stands for X, whatever the store held before.
C13_SingleTriple ==
    (/\ settledSet
     /\ typeOf(writtenSlot) \in ScalarTypes
     /\ writtenValue # Null)
        => stored(writtenSlot) =
                {Statement(uriOf(writtenSlot[1]),
                           NamedNode(calculatePredicateForProperty(writtenSlot[1],
                                                                   writtenSlot[2])),
                           termFor(typeOf(writtenSlot), writtenValue),
                           Graph(graphForInstance(Current, writtenSlot[1],
                                                  writtenSlot[2])))}

\* C14: assigning null to a scalar property does not throw, commits no
\* insert, and (once applied to the local store) leaves no statement of the
\* property there.
C14_NullClears ==
    (/\ last.op = "set"
     /\ typeOf(lastSlot) \in ScalarTypes
     /\ calculatePredicateForProperty(last.entity, last.property) # ""
     /\ last.value = Null)
        => /\ ~last.thrown
           /\ \A n \in DOMAIN last.commits : last.commits[n].ins = <<>>
           /\ (\A n \in DOMAIN last.commits : ~last.commits[n].remote)
                => stored(lastSlot) = {}

\* C15: once the assignment of a list to a hasMany property has settled, the
\* objects of the statements of the property in the local store are the uris
\* of the members of the list, also when the members are other objects than
\* the cached ones with the same uris.
C15_HasManyStored ==
    (/\ settledSet
     /\ typeOf(writtenSlot) = "hasMany"
     /\ ~definitionOf(writtenSlot[1], writtenSlot[2]).inverse)
        => {st.object : st \in stored(writtenSlot)} = urisOf(listOf(writtenValue))

\* the update that resolved last belongs to a write that was issued while
\* the update of another write of the same property was in flight
raced ==
    \/ last.update.origin.serial < writes
    \/ last.update.origin.racing # {}

\* C16: when a scalar property is assigned X and then Y while the remote
\* update of the first assignment is in flight, then, once both updates have
\* resolved, the cache slot holds Y and the statements of the property in the
\* local store are exactly the one for Y.
C16_LastWriteWins ==
    (/\ last.op = "resolve"
     /\ last.update.origin.op = "set"
     /\ pending = <<>>
     /\ ~failed
     /\ writes = 2
     /\ typeOf(writtenSlot) \in ScalarTypes
     /\ assigned[writtenSlot] \notin {Undefined, Null}
     /\ previous[writtenSlot] \notin {Undefined, Null}
     /\ raced)
        => /\ cache[writtenSlot] = assigned[writtenSlot]
           /\ stored(writtenSlot) =
                {Statement(uriOf(writtenSlot[1]),
                           NamedNode(calculatePredicateForProperty(writtenSlot[1],
                                                                   writtenSlot[2])),
                           termFor(typeOf(writtenSlot), assigned[writtenSlot]),
                           Graph(graphForInstance(Current, writtenSlot[1],
                                                  writtenSlot[2])))}

\* C17: once the commit of a construction has settled (and nothing was
\* assigned or destroyed since), the local store holds the type statement of
\* the entity in its target graph, with or without a modelName in the
\* options.
C17_TypeAsserted ==
    (/\ \/ last.op = "construct"
        \/ last.op = "resolve" /\ last.update.origin.op = "construct"
     /\ writes = 0
     /\ ~failed
     /\ \A n \in DOMAIN pending :
            ~(pending[n].origin.op = "construct"
              /\ pending[n].origin.entity = last.entity))
        => typeStatement(last.entity, Graph(entityOrDefaultGraph(Current, last.entity)))
                \in store

\* C18: once the assignment of entities to a property declared with inverse:
\* true has settled, the local store holds, for every assigned entity, the statement
\* with that entity as subject and the owner of the property as object, and
\* materializing the property from the store yields the assigned entities.
C18_InverseStored ==
    (/\ settledSet
     /\ typeOf(writtenSlot) = "hasMany"
     /\ definitionOf(writtenSlot[1], writtenSlot[2]).inverse
     /\ listOf(writtenValue) # <<>>)
        => /\ \A x \in Range(listOf(writtenValue)) :
                Statement(uriOf(x),
                          NamedNode(calculatePredicateForProperty(writtenSlot[1],
                                                                  writtenSlot[2])),
                          uriOf(writtenSlot[1]),
                          Graph(graphForInstance(Current, writtenSlot[1],
                                                 writtenSlot[2]))) \in store
           /\ urisOf(calculatePropertyValue(Current, writtenSlot[1], writtenSlot[2]).v)
                = urisOf(listOf(writtenValue))

\* C19: a read of a property returns what the read before it returned, as
\* long as the property was not assigned and its cache not recomputed in
\* between, whatever the first read yielded and whatever statements the
\* store received since.
C19_ReadsStable ==
    (last.op = "get" /\ ~last.thrown /\ last.earlier # NotRead)
        => last.result = last.earlier

\* the slot an operation wrote, or whose write it settled
slotOf(l) ==
    IF l.op = "resolve" THEN <<l.update.origin.entity, l.update.origin.property>>
    ELSE <<l.entity, l.property>>

\* a statement of the property of a slot, in the graph of the property
inFrame(st, sl) ==
    /\ st.subject = uriOf(sl[1])
    /\ st.predicate = NamedNode(calculatePredicateForProperty(sl[1], sl[2]))
    /\ st.graph = Graph(graphForInstance(Current, sl[1], sl[2]))

\* C20: an assignment to a scalar property, and the resolution of its remote
\* update, leave in the local store every statement of another subject,
\* another predicate or another graph as it was, and leave the cache slot of
\* every other property and every other entity as it was.
C20_ScalarWriteFrame ==
    [][(/\ \/ last'.op = "set"
           \/ last'.op = "resolve" /\ last'.update.origin.op = "set"
        /\ typeOf(slotOf(last')) \in ScalarTypes)
            => /\ \A st \in store \cup store' :
                    ~inFrame(st, slotOf(last')) => (st \in store <=> st \in store')
               /\ \A sl \in Slots \ {slotOf(last')} : cache'[sl] = cache[sl]]_vars

\* an assignment replaced the statement of the property while the store
\* held a statement of the property in another graph and one of another
\* subject, and the cache slot of another property was populated
C20_Witness ==
    /\ last.op = "set"
    /\ lastSlot = <<"E1", "inStock">>
    /\ Len(last.commits) = 1
    /\ last.commits[1].del # <<>>
    /\ last.commits[1].ins # <<>>
    /\ ~last.commits[1].remote
    /\ cache[<<"E1", "homepage">>] = NamedNode("urn:old")
    /\ Quad("urn:e1", "schema:inStock", Literal(Str(<<"1">>), "xsd:boolean"), "g:other")
            \in store
    /\ Quad("urn:e2", "schema:inStock", Literal(Str(<<"1">>), "xsd:boolean"),
            "g:editions") \in store

====
